---- MODULE Spec2Model ----
(***************************************************************************)
(* MongoQL CollectionWrapper (src/core/collectionwrapper.js): the fluent   *)
(* query builder, its choice between find() and aggregate(), the compiled  *)
(* plan handed to the native collection, and the reset after a terminal    *)
(* call.                                                                   *)
(*                                                                         *)
(* JavaScript values are tagged records.  A string is the sequence of its  *)
(* symbols, a symbol being one character (" ", "$", "*", a digit) or a     *)
(* whole word standing for its letters ("title"), so that trim() and the   *)
(* template `$${k}` are computed.  An object is the sequence of its        *)
(* <<key, value>> entries in insertion order, keys being strings.          *)
(***************************************************************************)
EXTENDS Integers, Sequences, FiniteSets, TLC

VARIABLES
    this,       \* the CollectionWrapper instance: its fluent-state fields
    fresh,      \* a builder constructed when the last terminal call resolved,
                \* given the same fluent calls as `this` since then
    inflight,   \* terminal calls awaiting the adapter's cursor.toArray()
    thrown,     \* what the last call threw ("none": it returned)
    last,       \* the last event: the method called, or how exec() ended
    ncalls,     \* fluent calls since the last reset
    selected,   \* the list of the chain's last select (Undefined: none, or
                \* selectAllWithAlias came after it)
    features,   \* the aggregation-only features the chain has used
    chain,      \* the arguments of the chain's calls that returned: of its
                \* where, orderBy and groupBy calls in call order, of its
                \* last limit and offset/skip
    erased,     \* how many fluent calls, made while the terminal call that
                \* has just resolved was awaiting, its reset has undone
    suite       \* which set of inputs the callers draw from

vars ==
    <<this, fresh, inflight, thrown, last, ncalls, selected, features, chain,
      erased, suite>>

----------------------------------------------------------------------------
(* JavaScript values *)

Undefined == [t |-> "undefined"]
Null == [t |-> "null"]
NaN == [t |-> "NaN"]
Num(n) == [t |-> "number", v |-> n]
Str(s) == [t |-> "string", v |-> s]
Obj(entries) == [t |-> "object", v |-> entries]
Arr(items) == [t |-> "array", v |-> items]

\* typeof x
TypeOf(x) ==
    CASE x.t = "undefined" -> "undefined"
      [] x.t = "string" -> "string"
      [] x.t \in {"number", "NaN"} -> "number"
      [] OTHER -> "object"

\* ToBoolean(x): what `!x` negates
Truthy(x) ==
    CASE x.t \in {"undefined", "null", "NaN"} -> FALSE
      [] x.t = "number" -> x.v # 0
      [] x.t = "string" -> x.v # <<>>
      [] OTHER -> TRUE

\* a parameter default: `f(x = d)` uses d when x is undefined
Default(x, d) == IF x = Undefined THEN d ELSE x

\* Object.entries(x) of an object or an array (index keys "0", "1", ...)
Digit == <<"0", "1", "2", "3", "4", "5", "6", "7", "8", "9">>
Entries(x) ==
    IF x.t = "array" THEN [i \in 1..Len(x.v) |-> <<(<<Digit[i]>>), x.v[i]>>]
    ELSE IF x.t = "object" THEN x.v
    ELSE <<>>

Keys(x) == [i \in 1..Len(Entries(x)) |-> Entries(x)[i][1]]
Values(x) == [i \in 1..Len(Entries(x)) |-> Entries(x)[i][2]]
KeySet(x) == {Keys(x)[i] : i \in 1..Len(Keys(x))}
Has(x, k) == k \in KeySet(x)
Get(x, k) ==
    IF Has(x, k)
    THEN Entries(x)[CHOOSE i \in 1..Len(Entries(x)) : Entries(x)[i][1] = k][2]
    ELSE Undefined

\* o[k] = v on a plain object: an existing key keeps its place, a new one
\* goes last
Set(o, k, v) ==
    IF Has(o, k)
    THEN Obj([i \in 1..Len(o.v) |-> IF o.v[i][1] = k THEN <<k, v>> ELSE o.v[i]])
    ELSE Obj(Append(o.v, <<k, v>>))

\* Object.assign(target, source), shallow, in the source's entry order
RECURSIVE AssignFrom(_, _)
AssignFrom(target, es) ==
    IF es = <<>> THEN target
    ELSE AssignFrom(Set(target, Head(es)[1], Head(es)[2]), Tail(es))

ObjectAssign(target, source) == AssignFrom(target, Entries(source))

\* String.prototype.trim
IsSpace(c) == c \in {" ", "\t", "\n"}
RECURSIVE TrimLeft(_)
TrimLeft(s) ==
    IF s # <<>> /\ IsSpace(Head(s)) THEN TrimLeft(Tail(s)) ELSE s
RECURSIVE TrimRight(_)
TrimRight(s) ==
    IF s # <<>> /\ IsSpace(s[Len(s)]) THEN TrimRight(SubSeq(s, 1, Len(s) - 1))
    ELSE s
trim(s) == TrimRight(TrimLeft(s))

\* Number(n) for a number, a string, null or undefined: a number is itself,
\* a string of decimal digits its value ("" is 0), null is 0, any other
\* string and undefined are NaN
DigitValue(c) == (CHOOSE i \in 1..10 : Digit[i] = c) - 1
IsDigit(c) == \E i \in 1..10 : Digit[i] = c
RECURSIVE Decimal(_, _)
Decimal(s, acc) ==
    IF s = <<>> THEN acc ELSE Decimal(Tail(s), 10 * acc + DigitValue(Head(s)))
Number(n) ==
    CASE n.t \in {"number", "NaN"} -> n
      [] n.t = "null" -> Num(0)
      [] n.t = "string" /\ (\A i \in 1..Len(trim(n.v)) : IsDigit(trim(n.v)[i]))
            -> Num(Decimal(trim(n.v), 0))
      [] OTHER -> NaN

\* a one-word string literal
W(word) == <<word>>

----------------------------------------------------------------------------
(* The builder: constructor and _resetState *)

\* an object with none of the builder's properties assigned yet
NewObject ==
    [query |-> Undefined, projection |-> Undefined, sort |-> Undefined,
     skipCount |-> Undefined, limitCount |-> Undefined, joinSpec |-> Undefined,
     groupSpec |-> Undefined, havingFilter |-> Undefined,
     _isAggregation |-> Undefined, _addFields |-> Undefined]

\* _resetState without the line that clears this.sort
_resetStateKeepsSort(self) ==
    [self EXCEPT !.query = Obj(<<>>),
                 !.projection = Null,
                 !.skipCount = Null,
                 !.limitCount = Null,
                 !.joinSpec = Null,
                 !.groupSpec = Null,
                 !.havingFilter = Null,
                 !._isAggregation = FALSE]

_resetState(self) ==
    [self EXCEPT !.query = Obj(<<>>),
                 !.projection = Null,
                 !.sort = Null,
                 !.skipCount = Null,
                 !.limitCount = Null,
                 !.joinSpec = Null,
                 !.groupSpec = Null,
                 !.havingFilter = Null,
                 !._isAggregation = FALSE]

\* new CollectionWrapper(collection), collection being a native collection
Constructor == _resetState(NewObject)

\* how a method call ends: it returns (the builder as it left it), or throws
\* (the builder as it was when the error was raised)
Return(self) == [self |-> self, err |-> "none"]
Throw(self, message) == [self |-> self, err |-> message]

----------------------------------------------------------------------------
(* Fluent API *)

\* selectEntry with the alias written the wrong way round: proj[k] = "$" + v
selectEntryAliasReversed(acc, k, v) ==
    IF TypeOf(v) = "string"
    THEN [acc EXCEPT !.proj = Set(@, k, Str(<<"$">> \o v.v)), !.has = TRUE]
    ELSE [acc EXCEPT !.proj = Set(@, k, v), !.has = TRUE]

\* one [k, v] of an object item of select's list
selectEntry(acc, k, v) ==
    IF TypeOf(v) = "string"
    THEN [acc EXCEPT !.proj = Set(@, v.v, Str(<<"$">> \o k)), !.has = TRUE]
    ELSE [acc EXCEPT !.proj = Set(@, k, v), !.has = TRUE]

RECURSIVE selectEntries(_, _)
selectEntries(acc, es) ==
    IF es = <<>> THEN acc
    ELSE selectEntries(selectEntry(acc, Head(es)[1], Head(es)[2]), Tail(es))

\* selectItem without the trim of a field name
selectItemUntrimmed(acc, item) ==
    IF TypeOf(item) = "string"
    THEN [acc EXCEPT !.proj = Set(@, item.v, Num(1))]
    ELSE IF TypeOf(item) = "object" /\ item # Null
    THEN LET after == selectEntries(acc, Entries(item))
         IN  [after EXCEPT !.flag = after.has]
    ELSE acc

\* one item of select's list; acc.flag is this._isAggregation
selectItem(acc, item) ==
    IF TypeOf(item) = "string"
    THEN [acc EXCEPT !.proj = Set(@, trim(item.v), Num(1))]
    ELSE IF TypeOf(item) = "object" /\ item # Null
    THEN LET after == selectEntries(acc, Entries(item))
         IN  [after EXCEPT !.flag = after.has]
    ELSE acc

RECURSIVE selectItems(_, _)
selectItems(acc, its) ==
    IF its = <<>> THEN acc
    ELSE selectItems(selectItem(acc, Head(its)), Tail(its))

\* select(fields = []), fields an array, null or absent
select(self, fields0) ==
    LET fields == Default(fields0, Arr(<<>>))
    IN  IF ~Truthy(fields) \/ Len(fields.v) = 0
           \/ (\E i \in 1..Len(fields.v) : fields.v[i] = Str(W("*")))
        THEN Return([self EXCEPT !.projection = Null])
        ELSE LET done == selectItems([proj |-> Obj(<<>>), has |-> FALSE,
                                      flag |-> self._isAggregation], fields.v)
             IN  Return([self EXCEPT
                     !.projection = done.proj,
                     !._isAggregation = IF done.has THEN TRUE ELSE done.flag])

addFields(self, fields0) ==
    LET fields == Default(fields0, Obj(<<>>))
    IN  IF ~Truthy(fields) \/ TypeOf(fields) # "object"
        THEN Throw(self, "addFields expects an object")
        ELSE Return([self EXCEPT !._addFields = fields, !._isAggregation = TRUE])

RECURSIVE aliasEntries(_, _)
aliasEntries(added, es) ==
    IF es = <<>> THEN added
    ELSE aliasEntries(Set(added, Head(es)[2].v, Str(<<"$">> \o Head(es)[1])),
                      Tail(es))

\* selectAllWithAlias(aliasMap = {}), aliasMap an object of strings or absent
selectAllWithAlias(self, aliasMap0) ==
    LET aliasMap == Default(aliasMap0, Obj(<<>>))
    IN  Return([self EXCEPT !.projection = Null,
                            !._addFields = aliasEntries(Obj(<<>>), Entries(aliasMap)),
                            !._isAggregation = TRUE])

\* where with the merge the other way round: a key already in this.query
\* keeps its value
whereKeepsEarlier(self, filter0) ==
    LET filter == Default(filter0, Obj(<<>>))
    IN  IF ~Truthy(filter) \/ TypeOf(filter) # "object"
        THEN Throw(self, ".where expects an object")
        ELSE Return([self EXCEPT !.query = ObjectAssign(ObjectAssign(@, filter), @)])

where(self, filter0) ==
    LET filter == Default(filter0, Obj(<<>>))
    IN  IF ~Truthy(filter) \/ TypeOf(filter) # "object"
        THEN Throw(self, ".where expects an object")
        ELSE Return([self EXCEPT !.query = ObjectAssign(@, filter)])

\* orderBy that takes only the string "desc" for descending
orderByDescWordOnly(self, field, direction0) ==
    LET direction == Default(direction0, Str(W("asc")))
        dir == IF direction = Str(W("desc")) THEN Num(-1) ELSE Num(1)
    IN  IF ~Truthy(field) THEN Return(self)
        ELSE Return([self EXCEPT
                !.sort = Set(IF Truthy(@) THEN @ ELSE Obj(<<>>), field.v, dir)])

\* orderBy(field, direction = "asc"), field a string or absent
orderBy(self, field, direction0) ==
    LET direction == Default(direction0, Str(W("asc")))
        dir == IF direction = Str(W("desc")) \/ direction = Num(-1)
               THEN Num(-1) ELSE Num(1)
    IN  IF ~Truthy(field) THEN Return(self)
        ELSE Return([self EXCEPT
                !.sort = Set(IF Truthy(@) THEN @ ELSE Obj(<<>>), field.v, dir)])

\* limit that also turns the mode flag on
limitForcesAggregation(self, n) ==
    Return([self EXCEPT !.limitCount = Number(n), !._isAggregation = TRUE])

limit(self, n) == Return([self EXCEPT !.limitCount = Number(n)])

offset(self, n) == Return([self EXCEPT !.skipCount = Number(n)])

skip(self, n) == offset(self, n)

join(self, lookupSpec) ==
    IF ~Truthy(lookupSpec) \/ TypeOf(lookupSpec) # "object"
    THEN Throw(self, "join expects a $lookup spec object")
    ELSE Return([self EXCEPT !.joinSpec = lookupSpec, !._isAggregation = TRUE])

\* groupBy with the mode flag set before the argument is looked at
groupByFlagsFirst(self, fieldOrSpec) ==
    LET flagged == [self EXCEPT !._isAggregation = TRUE]
    IN  IF ~Truthy(fieldOrSpec)
        THEN Throw(flagged, "groupBy expects a field name or a group spec")
        ELSE IF TypeOf(fieldOrSpec) = "string"
        THEN Return([flagged EXCEPT
                !.groupSpec = Obj(<< <<W("_id"), Str(<<"$">> \o fieldOrSpec.v)>>,
                                     <<W("items"),
                                       Obj(<< <<W("$push"), Str(W("$$ROOT"))>> >>)>> >>)])
        ELSE IF TypeOf(fieldOrSpec) = "object"
        THEN Return([flagged EXCEPT !.groupSpec = fieldOrSpec])
        ELSE Throw(flagged, "groupBy accepts string or object")

\* groupBy that leaves a group spec already set as it is
groupByKeepsFirst(self, fieldOrSpec) ==
    IF ~Truthy(fieldOrSpec)
    THEN Throw(self, "groupBy expects a field name or a group spec")
    ELSE IF TypeOf(fieldOrSpec) \notin {"string", "object"}
    THEN Throw(self, "groupBy accepts string or object")
    ELSE IF Truthy(self.groupSpec)
    THEN Return([self EXCEPT !._isAggregation = TRUE])
    ELSE IF TypeOf(fieldOrSpec) = "string"
    THEN Return([self EXCEPT
            !.groupSpec = Obj(<< <<W("_id"), Str(<<"$">> \o fieldOrSpec.v)>>,
                                 <<W("items"),
                                   Obj(<< <<W("$push"), Str(W("$$ROOT"))>> >>)>> >>),
            !._isAggregation = TRUE])
    ELSE Return([self EXCEPT !.groupSpec = fieldOrSpec, !._isAggregation = TRUE])

groupBy(self, fieldOrSpec) ==
    IF ~Truthy(fieldOrSpec)
    THEN Throw(self, "groupBy expects a field name or a group spec")
    ELSE IF TypeOf(fieldOrSpec) = "string"
    THEN Return([self EXCEPT
            !.groupSpec = Obj(<< <<W("_id"), Str(<<"$">> \o fieldOrSpec.v)>>,
                                 <<W("items"),
                                   Obj(<< <<W("$push"), Str(W("$$ROOT"))>> >>)>> >>),
            !._isAggregation = TRUE])
    ELSE IF TypeOf(fieldOrSpec) = "object"
    THEN Return([self EXCEPT !.groupSpec = fieldOrSpec, !._isAggregation = TRUE])
    ELSE Throw(self, "groupBy accepts string or object")

having(self, filter0) ==
    LET filter == Default(filter0, Obj(<<>>))
    IN  IF ~Truthy(filter) \/ TypeOf(filter) # "object"
        THEN Throw(self, ".having expects an object")
        ELSE Return([self EXCEPT !.havingFilter = filter, !._isAggregation = TRUE])

_projectionRequiresAggregation(self) ==
    IF ~Truthy(self.projection) THEN FALSE
    ELSE \E i \in 1..Len(Values(self.projection)) :
            /\ TypeOf(Values(self.projection)[i]) = "object"
            /\ Values(self.projection)[i] # Null

----------------------------------------------------------------------------
(* Execution: exec() up to its await *)

\* the test of exec()'s if without the stored flag
UsesAggregationByProjectionOnly(self) == _projectionRequiresAggregation(self)

\* the test of exec()'s if
UsesAggregation(self) ==
    self._isAggregation \/ _projectionRequiresAggregation(self)

\* a pipeline stage { op: arg }
Stage(op, arg) == Obj(<< <<W(op), arg>> >>)

\* pipeline.push(stage) when cond
PushIf(pipeline, cond, stage) ==
    IF cond THEN Append(pipeline, stage) ELSE pipeline

\* Pipeline with the $sort stage pushed after $skip and $limit
PipelineSortsLate(self) ==
    LET s1 == PushIf(<<>>, Len(Keys(self.query)) > 0, Stage("$match", self.query))
        s2 == PushIf(s1, Truthy(self.joinSpec), Stage("$lookup", self.joinSpec))
        s3 == PushIf(s2, Truthy(self.groupSpec), Stage("$group", self.groupSpec))
        s4 == PushIf(s3, Truthy(self.havingFilter),
                     Stage("$match", self.havingFilter))
        s5 == PushIf(s4, self.skipCount # Null, Stage("$skip", self.skipCount))
        s6 == PushIf(s5, self.limitCount # Null, Stage("$limit", self.limitCount))
        s7 == PushIf(s6, Truthy(self.sort), Stage("$sort", self.sort))
        s8 == PushIf(s7, Truthy(self.projection),
                     Stage("$project", self.projection))
    IN  s8

\* the pipeline built by the aggregation branch, stages 1 to 8
Pipeline(self) ==
    LET s1 == PushIf(<<>>, Len(Keys(self.query)) > 0, Stage("$match", self.query))
        s2 == PushIf(s1, Truthy(self.joinSpec), Stage("$lookup", self.joinSpec))
        s3 == PushIf(s2, Truthy(self.groupSpec), Stage("$group", self.groupSpec))
        s4 == PushIf(s3, Truthy(self.havingFilter),
                     Stage("$match", self.havingFilter))
        s5 == PushIf(s4, Truthy(self.sort), Stage("$sort", self.sort))
        s6 == PushIf(s5, self.skipCount # Null, Stage("$skip", self.skipCount))
        s7 == PushIf(s6, self.limitCount # Null, Stage("$limit", self.limitCount))
        s8 == PushIf(s7, Truthy(self.projection),
                     Stage("$project", self.projection))
    IN  s8

\* the options of find(): opts.projection and opts.sort when set
FindOptions(self) ==
    LET o1 == IF Truthy(self.projection)
              THEN Set(Obj(<<>>), W("projection"), self.projection)
              ELSE Obj(<<>>)
    IN  IF Truthy(self.sort) THEN Set(o1, W("sort"), self.sort) ELSE o1

\* the first argument of find()
FindFilter(self) ==
    IF Len(Keys(self.query)) > 0 THEN self.query ELSE Obj(<<>>)

\* CursorCalls with the limit handed to cursor.skip
CursorCallsSkipsLimit(self) ==
    LET c1 == PushIf(<<>>, self.skipCount # Null, <<"skip", self.skipCount>>)
    IN  PushIf(c1, self.limitCount # Null, <<"skip", self.limitCount>>)

\* cursor.skip(n) and cursor.limit(n), in the order they are called
CursorCalls(self) ==
    LET c1 == PushIf(<<>>, self.skipCount # Null, <<"skip", self.skipCount>>)
    IN  PushIf(c1, self.limitCount # Null, <<"limit", self.limitCount>>)

\* what exec() asks of the native collection before it awaits toArray()
Request(self) ==
    IF UsesAggregation(self)
    THEN [call |-> "aggregate", pipeline |-> Pipeline(self),
          filter |-> Undefined, opts |-> Undefined, cursor |-> <<>>]
    ELSE [call |-> "find", pipeline |-> <<>>,
          filter |-> FindFilter(self), opts |-> FindOptions(self),
          cursor |-> CursorCalls(self)]

\* the objects of the builder that a request holds by reference, not by copy
SharedWith(self) ==
    (IF Len(Keys(self.query)) > 0 THEN {"query"} ELSE {})
        \cup (IF Truthy(self.sort) THEN {"sort"} ELSE {})

\* where the $sort stage stands in the pipeline built from `ir`
Count(cond) == IF cond THEN 1 ELSE 0
SortStageAt(ir) ==
    Count(Len(Keys(ir.query)) > 0) + Count(Truthy(ir.joinSpec))
        + Count(Truthy(ir.groupSpec)) + Count(Truthy(ir.havingFilter)) + 1

\* a request read through its references, the builder being `self`: the
\* leading $match holds this.query and the $sort stage this.sort
RequestNow(e, self) ==
    IF e.sent.call = "aggregate"
    THEN [e.sent EXCEPT !.pipeline = [i \in 1..Len(@) |->
            IF "query" \in e.shares /\ i = 1
            THEN Stage("$match", self.query)
            ELSE IF "sort" \in e.shares /\ i = SortStageAt(e.ir)
            THEN Stage("$sort", self.sort)
            ELSE @[i]]]
    ELSE [e.sent EXCEPT
            !.filter = IF "query" \in e.shares THEN self.query ELSE @,
            !.opts = IF "sort" \in e.shares THEN Set(@, W("sort"), self.sort) ELSE @]

\* a terminal call at its await: the builder it read, the request as sent,
\* the request as its objects read now, the builder objects it shares
exec(self) ==
    [ir |-> self, sent |-> Request(self), now |-> Request(self),
     shares |-> SharedWith(self)]

toArray(self) == exec(self)

----------------------------------------------------------------------------
(* Bounds and inputs *)

\* fluent calls per chain, when the callers draw from every shape of argument
MaxCalls == 3
\* fluent calls per chain, when each method has one argument
MaxChain == 8
\* fluent calls per chain, when terminal calls overlap
MaxAsyncCalls == 2
\* terminal calls awaiting the adapter at once
MaxInflight == 2

title == W("title")
author == W("author")
writer == W("writer")
genre == W("genre")
rating == W("rating")
count == W("count")

AliasAuthor == Obj(<< <<author, Str(writer)>> >>)
CountBooks == Obj(<< <<count, Obj(<< <<W("$sum"), Num(1)>> >>)>> >>)
SciFi == Obj(<< <<genre, Str(W("Sci-Fi"))>> >>)
FantasyRated == Obj(<< <<genre, Str(W("Fantasy"))>>, <<rating, Num(5)>> >>)
ManyBooks == Obj(<< <<count, Obj(<< <<W("$gt"), Num(5)>> >>)>> >>)
Lookup ==
    Obj(<< <<W("from"), Str(W("authors"))>>, <<W("localField"), Str(W("authorId"))>>,
           <<W("foreignField"), Str(W("_id"))>>, <<W("as"), Str(W("authorDetails"))>> >>)
LookupFromOnly == Obj(<< <<W("from"), Str(W("authors"))>> >>)
GroupByAuthor == Obj(<< <<W("_id"), Str(<<"$", "author">>)>> >>)
WriterOfAuthor == Obj(<< <<writer, Str(<<"$", "author">>)>> >>)

\* the arguments the callers pass, by suite: "api" draws every shape of
\* argument, "order" and "async" one well-formed argument per method ("async"
\* two filters and two sort keys, the objects a request shares)
SelectArgs ==
    IF suite = "api"
    THEN {Undefined, Arr(<<Str(W("*"))>>), Arr(<<Str(title)>>),
          Arr(<<Str(<<" ", "title">>), Str(author)>>),
          Arr(<<Str(title), AliasAuthor>>), Arr(<<Str(W("*")), AliasAuthor>>),
          Arr(<<AliasAuthor, Str(writer)>>), Arr(<<CountBooks>>),
          Arr(<<Obj(<<>>)>>)}
    ELSE {Arr(<<Str(title), AliasAuthor>>)}

AddFieldsArgs ==
    IF suite = "api" THEN {Undefined, Null, WriterOfAuthor} ELSE {WriterOfAuthor}

SelectAllWithAliasArgs == {AliasAuthor}

WhereArgs ==
    CASE suite = "api" ->
            {Undefined, Null, Str(genre), Obj(<<>>), SciFi, FantasyRated}
      [] suite = "async" -> {SciFi, FantasyRated}
      [] OTHER -> {SciFi}

OrderByArgs ==
    CASE suite = "api" ->
            {<<Undefined, Undefined>>, <<Str(title), Undefined>>,
             <<Str(rating), Str(W("desc"))>>, <<Str(title), Num(-1)>>}
      [] suite = "async" -> {<<Str(title), Undefined>>, <<Str(rating), Str(W("desc"))>>}
      [] OTHER -> {<<Str(title), Undefined>>}

LimitArgs ==
    IF suite = "api" THEN {Num(5), Num(-1), Str(W("abc"))} ELSE {Num(5)}

OffsetArgs ==
    IF suite = "api" THEN {Num(2), Num(-1), Undefined} ELSE {Num(2)}

JoinArgs ==
    IF suite = "api" THEN {Undefined, Lookup, LookupFromOnly} ELSE {Lookup}

GroupByArgs ==
    IF suite = "api"
    THEN {Undefined, Num(0), Num(5), Str(genre), GroupByAuthor}
    ELSE {Str(genre)}

HavingArgs ==
    IF suite = "api" THEN {Undefined, Null, Str(count), ManyBooks} ELSE {ManyBooks}

\* in suite "async" the caller goes on while terminal calls await the
\* adapter; in the others it awaits each terminal call before going on
Overlapping == suite = "async"
CallsLeft ==
    ncalls < (CASE suite = "api" -> MaxCalls
                [] suite = "async" -> MaxAsyncCalls
                [] OTHER -> MaxChain)
InflightLeft == Len(inflight) < (IF Overlapping THEN MaxInflight ELSE 1)

----------------------------------------------------------------------------
(* Actions *)

Remove(seq, i) == SubSeq(seq, 1, i - 1) \o SubSeq(seq, i + 1, Len(seq))

\* the entries of the object items of a select list
ItemEntries(fields) ==
    UNION {{Entries(fields.v[i])[j] : j \in 1..Len(Entries(fields.v[i]))} :
            i \in {n \in 1..Len(fields.v) : fields.v[n].t = "object"}}

\* what a select list asks for beyond plain inclusion
SelectFeatures(fields) ==
    (IF \E e \in ItemEntries(fields) : e[2].t = "string" THEN {"alias"} ELSE {})
        \cup (IF \E e \in ItemEntries(fields) : e[2].t # "string"
              THEN {"computed"} ELSE {})

\* a fluent call that ends as `r` on this builder and as `rf` on `fresh`;
\* the requests in flight see the objects they share as the call left them.
\* A call that returns records `sel` and `feat` in the chain's history.
NoCalls ==
    [filters |-> <<>>, sorts |-> <<>>, grouped |-> <<>>,
     limited |-> <<>>, skipped |-> <<>>]

Fluent(name, r, rf, sel, feat, ch) ==
    /\ CallsLeft
    /\ inflight = <<>> \/ Overlapping
    /\ this' = r.self
    /\ fresh' = rf.self
    /\ thrown' = r.err
    /\ last' = name
    /\ ncalls' = ncalls + 1
    /\ selected' = IF r.err = "none" THEN sel ELSE selected
    /\ features' = IF r.err = "none" THEN features \cup feat ELSE features
    /\ chain' = IF r.err = "none" THEN ch ELSE chain
    /\ inflight' = [i \in 1..Len(inflight) |->
            [inflight[i] EXCEPT
                !.now = RequestNow(inflight[i], r.self),
                !.during = IF r.err = "none" THEN @ + 1 ELSE @]]
    /\ erased' = 0
    /\ UNCHANGED suite

Select ==
    \E fields \in SelectArgs :
        Fluent("select", select(this, fields), select(fresh, fields),
               Default(fields, Arr(<<>>)),
               SelectFeatures(Default(fields, Arr(<<>>))), chain)

AddFields ==
    \E fields \in AddFieldsArgs :
        Fluent("addFields", addFields(this, fields), addFields(fresh, fields),
               selected, {"addFields"}, chain)

SelectAllWithAlias ==
    \E aliasMap \in SelectAllWithAliasArgs :
        Fluent("selectAllWithAlias", selectAllWithAlias(this, aliasMap),
               selectAllWithAlias(fresh, aliasMap),
               Undefined, {"selectAllWithAlias"}, chain)

WhereCall(filter) ==
    Fluent("where", where(this, filter), where(fresh, filter), selected, {},
           [chain EXCEPT !.filters = Append(@, filter)])

Where == \E filter \in WhereArgs : WhereCall(filter)

OrderBy ==
    \E a \in OrderByArgs :
        Fluent("orderBy", orderBy(this, a[1], a[2]), orderBy(fresh, a[1], a[2]),
               selected, {}, [chain EXCEPT !.sorts = Append(@, a)])

\* limit(n) were it to ask the native collection for a cursor itself
LimitCallDispatches(n) ==
    /\ CallsLeft
    /\ inflight = <<>> \/ Overlapping
    /\ InflightLeft
    /\ this' = limit(this, n).self
    /\ fresh' = limit(fresh, n).self
    /\ thrown' = "none"
    /\ last' = "limit"
    /\ ncalls' = ncalls + 1
    /\ chain' = [chain EXCEPT !.limited = <<n>>]
    /\ inflight' = Append(inflight,
            exec(this') @@ [after |-> last, selected |-> selected,
                            features |-> features, chain |-> chain',
                            fresh |-> fresh', during |-> 0])
    /\ erased' = 0
    /\ UNCHANGED <<selected, features, suite>>

LimitCall(n) ==
    Fluent("limit", limit(this, n), limit(fresh, n), selected, {},
           [chain EXCEPT !.limited = <<n>>])

Limit == \E n \in LimitArgs : LimitCall(n)

OffsetCall(n) ==
    Fluent("offset", offset(this, n), offset(fresh, n), selected, {},
           [chain EXCEPT !.skipped = <<n>>])

Offset == \E n \in OffsetArgs : OffsetCall(n)

SkipCall(n) ==
    Fluent("skip", skip(this, n), skip(fresh, n), selected, {},
           [chain EXCEPT !.skipped = <<n>>])

Skip == \E n \in OffsetArgs : SkipCall(n)

JoinCall(lookupSpec) ==
    Fluent("join", join(this, lookupSpec), join(fresh, lookupSpec),
           selected, {"join"}, chain)

Join == \E lookupSpec \in JoinArgs : JoinCall(lookupSpec)

GroupByCall(fieldOrSpec) ==
    Fluent("groupBy", groupBy(this, fieldOrSpec), groupBy(fresh, fieldOrSpec),
           selected, {"groupBy"}, [chain EXCEPT !.grouped = Append(@, fieldOrSpec)])

GroupBy == \E fieldOrSpec \in GroupByArgs : GroupByCall(fieldOrSpec)

HavingCall(filter) ==
    Fluent("having", having(this, filter), having(fresh, filter),
           selected, {"having"}, chain)

Having == \E filter \in HavingArgs : HavingCall(filter)

\* a terminal call runs to its await: the request is with the adapter.  The
\* entry keeps the chain's history as it was at the call.
Terminal(e) ==
    /\ InflightLeft
    /\ inflight' = Append(inflight,
            e @@ [after |-> last, selected |-> selected, features |-> features,
                  chain |-> chain, fresh |-> fresh, during |-> 0])
    /\ last' = "exec"
    /\ thrown' = "none"
    /\ erased' = 0
    /\ UNCHANGED <<this, fresh, ncalls, selected, features, chain, suite>>

Exec == Terminal(exec(this))

ToArray == Terminal(toArray(this))

\* cursor.toArray() resolves for one of the calls in flight: exec() resets
\* the builder and returns; this.query and this.sort are new objects now
\* Resolve were exec() to reset only a builder that no fluent call has
\* touched since the dispatch
ResolveKeepsLaterCalls ==
    \E i \in 1..Len(inflight) :
        /\ this' = IF inflight[i].during > 0 THEN this ELSE _resetState(this)
        /\ fresh' = Constructor
        /\ inflight' = [j \in 1..(Len(inflight) - 1) |->
                [Remove(inflight, i)[j] EXCEPT !.shares = {}, !.during = 0]]
        /\ last' = "resolved"
        /\ thrown' = "none"
        /\ ncalls' = 0
        /\ selected' = Undefined
        /\ features' = {}
        /\ chain' = NoCalls
        /\ erased' = inflight[i].during
        /\ UNCHANGED suite

Resolve ==
    \E i \in 1..Len(inflight) :
        /\ this' = _resetState(this)
        /\ fresh' = Constructor
        /\ inflight' = [j \in 1..(Len(inflight) - 1) |->
                [Remove(inflight, i)[j] EXCEPT !.shares = {}, !.during = 0]]
        /\ last' = "resolved"
        /\ thrown' = "none"
        /\ ncalls' = 0
        /\ selected' = Undefined
        /\ features' = {}
        /\ chain' = NoCalls
        /\ erased' = inflight[i].during
        /\ UNCHANGED suite

\* Reject were exec() to reset in a finally block
RejectResets ==
    \E i \in 1..Len(inflight) :
        /\ this' = _resetState(this)
        /\ inflight' = Remove(inflight, i)
        /\ last' = "rejected"
        /\ thrown' = "none"
        /\ erased' = 0
        /\ UNCHANGED <<fresh, ncalls, selected, features, chain, suite>>

\* the adapter fails for one of the calls in flight: exec() rejects at its
\* await and never reaches _resetState
Reject ==
    \E i \in 1..Len(inflight) :
        /\ inflight' = Remove(inflight, i)
        /\ last' = "rejected"
        /\ thrown' = "none"
        /\ erased' = 0
        /\ UNCHANGED <<this, fresh, ncalls, selected, features, chain, suite>>

InitSuite(s) ==
    /\ this = Constructor
    /\ fresh = Constructor
    /\ inflight = <<>>
    /\ thrown = "none"
    /\ last = "constructor"
    /\ ncalls = 0
    /\ selected = Undefined
    /\ features = {}
    /\ chain = NoCalls
    /\ erased = 0
    /\ suite = s

Init == InitSuite("api")

InitOrder == InitSuite("order")

InitAsync == InitSuite("async")

Next ==
    \/ Select
    \/ AddFields
    \/ SelectAllWithAlias
    \/ Where
    \/ OrderBy
    \/ Limit
    \/ Offset
    \/ Skip
    \/ Join
    \/ GroupBy
    \/ Having
    \/ Exec
    \/ ToArray
    \/ Resolve
    \/ Reject

Spec == Init /\ [][Next]_vars

SpecOrder == InitOrder /\ [][Next]_vars

SpecAsync == InitAsync /\ [][Next]_vars

----------------------------------------------------------------------------
(* Properties *)

InFlight == {inflight[i] : i \in 1..Len(inflight)}

\* the stages of the fixed order with the IR field each one carries and
\* whether the field is set (differs from its value after construction)
FixedOrder(ir) ==
    << <<"$match", ir.query, ir.query # Constructor.query>>,
       <<"$lookup", ir.joinSpec, ir.joinSpec # Constructor.joinSpec>>,
       <<"$group", ir.groupSpec, ir.groupSpec # Constructor.groupSpec>>,
       <<"$match", ir.havingFilter, ir.havingFilter # Constructor.havingFilter>>,
       <<"$sort", ir.sort, ir.sort # Constructor.sort>>,
       <<"$skip", ir.skipCount, ir.skipCount # Constructor.skipCount>>,
       <<"$limit", ir.limitCount, ir.limitCount # Constructor.limitCount>>,
       <<"$project", ir.projection, ir.projection # Constructor.projection>> >>

IsSet(entry) == entry[3]

ExpectedStages(ir) ==
    LET present == SelectSeq(FixedOrder(ir), IsSet)
    IN  [i \in 1..Len(present) |-> Stage(present[i][1], present[i][2])]

\* C1: the pipeline passed to aggregate() is the subsequence of [match(query),
\* lookup, group, match(having), sort, skip, limit, project] made of the
\* stages whose IR field is set, in that order, whatever the order of the
\* fluent calls that built the chain.
C1_PipelineFixedOrder ==
    \A e \in InFlight :
        e.sent.call = "aggregate" => e.sent.pipeline = ExpectedStages(e.ir)

\* C1 witness: all eight stages dispatched by a chain whose last fluent call
\* was where(), the call of the first stage.
C1_Witness ==
    \E e \in InFlight :
        /\ e.sent.call = "aggregate"
        /\ Len(e.sent.pipeline) = 8
        /\ e.after = "where"

\* a selection that holds an alias or a computed entry: a projection value
\* other than the inclusion marker
HasAliasOrComputed(ir) ==
    /\ ir.projection # Null
    /\ \E i \in 1..Len(Values(ir.projection)) : Values(ir.projection)[i] # Num(1)

\* C2: at a terminal call an IR with a join spec, a group spec, a having
\* filter or a selection holding an alias or computed entry is executed in
\* Aggregation mode, never through find() (the half of the claim's
\* equivalence that it spells out for join, group and having).
C2_FeaturesRunAggregation ==
    \A e \in InFlight :
        (\/ e.ir.joinSpec # Null
         \/ e.ir.groupSpec # Null
         \/ e.ir.havingFilter # Null
         \/ HasAliasOrComputed(e.ir)) => e.sent.call = "aggregate"

\* C3: once the mode is Aggregation, no later fluent call of the chain makes
\* it Simple again (the mode being what exec() would choose now).
C3_ModeMonotonic ==
    [][(UsesAggregation(this) /\ last' \notin {"resolved", "rejected", "exec"})
            => UsesAggregation(this')]_vars

\* C4: when a terminal call has resolved, every field of the builder that a
\* fluent call can write is as in a newly constructed builder.
C4_ResetRestoresConstructed == last = "resolved" => this = Constructor

\* C5: the mode and the request dispatched for a chain are those the same
\* chain gives on a builder constructed when the previous terminal call
\* resolved: nothing of an earlier chain is in them.
C5_NoLeakBetweenChains ==
    \A e \in InFlight :
        /\ UsesAggregation(e.ir) = UsesAggregation(e.fresh)
        /\ e.sent = Request(e.fresh)

\* C5 witness: a chain dispatched through find() on a builder that an earlier
\* chain, run in Aggregation mode by addFields, has left different from a
\* newly constructed one.
C5_Witness ==
    \E e \in InFlight :
        /\ e.ir._addFields # Undefined
        /\ e.features = {}
        /\ e.ir # e.fresh
        /\ e.sent.call = "find"
        /\ e.sent.filter # Obj(<<>>)

\* a non-empty select list of plain field names, none of them the wildcard
PlainNames(fields) ==
    /\ fields.t = "array"
    /\ Len(fields.v) > 0
    /\ \A i \in 1..Len(fields.v) :
            fields.v[i].t = "string" /\ fields.v[i] # Str(W("*"))

\* the projection option of a find() request is an inclusion map of `names`
FindsIncluding(sent, names) ==
    /\ sent.call = "find"
    /\ Has(sent.opts, W("projection"))
    /\ KeySet(Get(sent.opts, W("projection"))) = names
    /\ \A k \in names : Get(Get(sent.opts, W("projection")), k) = Num(1)

\* C6 as claimed: a chain that uses no aggregation-only feature and whose
\* select list holds only plain field names runs find() with an inclusion map
\* whose keys are exactly the names of the list.
C6_PlainSelectKeysAsGiven ==
    \A e \in InFlight :
        (PlainNames(e.selected) /\ e.features = {}) =>
            FindsIncluding(e.sent, {e.selected.v[i].v : i \in 1..Len(e.selected.v)})

\* C6 amended: ... whose keys are exactly the names of the list with their
\* leading and trailing whitespace removed.
C6_PlainSelectKeysTrimmed ==
    \A e \in InFlight :
        (PlainNames(e.selected) /\ e.features = {}) =>
            FindsIncluding(e.sent,
                {trim(e.selected.v[i].v) : i \in 1..Len(e.selected.v)})

\* C6 witness: find() dispatched for a list of plain names, one of them
\* written with a leading space.
C6_Witness ==
    \E e \in InFlight :
        /\ PlainNames(e.selected)
        /\ e.features = {}
        /\ e.sent.call = "find"
        /\ \E i \in 1..Len(e.selected.v) :
                trim(e.selected.v[i].v) # e.selected.v[i].v

\* what a select list writes: <<item, entry, output name, value>>, a plain
\* field its trimmed name and the inclusion marker, an alias entry
\* {source: aliasName} the alias and "$source"
PlainWrites(fields) ==
    {<<i, 0, trim(fields.v[i].v), Num(1)>> :
        i \in {n \in 1..Len(fields.v) : fields.v[n].t = "string"}}

AliasWrites(fields) ==
    UNION {{<<i, j, fields.v[i].v[j][2].v, Str(<<"$">> \o fields.v[i].v[j][1])>> :
                j \in {m \in 1..Len(fields.v[i].v) : fields.v[i].v[m][2].t = "string"}} :
            i \in {n \in 1..Len(fields.v) : fields.v[n].t = "object"}}

ComputedWrites(fields) ==
    UNION {{<<i, j, fields.v[i].v[j][1], fields.v[i].v[j][2]>> :
                j \in {m \in 1..Len(fields.v[i].v) : fields.v[i].v[m][2].t # "string"}} :
            i \in {n \in 1..Len(fields.v) : fields.v[n].t = "object"}}

Writes(fields) ==
    PlainWrites(fields) \cup AliasWrites(fields) \cup ComputedWrites(fields)

HasWildcard(fields) == \E i \in 1..Len(fields.v) : fields.v[i] = Str(W("*"))

DistinctOutputs(fields) ==
    \A w1, w2 \in Writes(fields) : w1[3] = w2[3] => w1 = w2

\* the request is an aggregation whose last stage is a $project that holds
\* every write of the list
ProjectsLast(sent, fields) ==
    /\ sent.call = "aggregate"
    /\ Len(sent.pipeline) > 0
    /\ Keys(sent.pipeline[Len(sent.pipeline)]) = <<W("$project")>>
    /\ \A w \in PlainWrites(fields) \cup AliasWrites(fields) :
            Get(Get(sent.pipeline[Len(sent.pipeline)], W("$project")), w[3]) = w[4]

\* Scenario A: select(["title", {author: "writer"}]).where({genre: "Sci-Fi"})
\* .limit(5) and nothing else
ScenarioA(e) ==
    /\ e.selected = Arr(<<Str(title), AliasAuthor>>)
    /\ e.ir.query = SciFi
    /\ e.ir.limitCount = Num(5)
    /\ e.ir.sort = Null /\ e.ir.skipCount = Null /\ e.ir.joinSpec = Null
    /\ e.ir.groupSpec = Null /\ e.ir.havingFilter = Null

ScenarioAPipeline ==
    << Stage("$match", Obj(<< <<genre, Str(W("Sci-Fi"))>> >>)),
       Stage("$limit", Num(5)),
       Stage("$project", Obj(<< <<title, Num(1)>>,
                                <<writer, Str(<<"$", "author">>)>> >>)) >>

\* C7 as claimed: a chain whose select list holds an alias entry runs in
\* Aggregation mode and its $project stage maps each alias to "$source" and
\* each plain field to the inclusion marker; Scenario A compiles to exactly
\* [match, limit, project].
C7_AliasSelectProjects ==
    \A e \in InFlight :
        /\ (e.selected # Undefined /\ AliasWrites(e.selected) # {})
                => ProjectsLast(e.sent, e.selected)
        /\ ScenarioA(e) => e.sent.pipeline = ScenarioAPipeline

\* C7 amended: ... whose select list holds an alias entry, no wildcard, and
\* no two entries with the same output name ...
C7_AliasSelectProjectsUnlessWildcard ==
    \A e \in InFlight :
        /\ (/\ e.selected # Undefined
            /\ AliasWrites(e.selected) # {}
            /\ ~HasWildcard(e.selected)
            /\ DistinctOutputs(e.selected)) => ProjectsLast(e.sent, e.selected)
        /\ ScenarioA(e) => e.sent.pipeline = ScenarioAPipeline

\* C7 witness: Scenario A dispatched, its calls made in the claim's order.
C7_Witness ==
    \E e \in InFlight : ScenarioA(e) /\ e.after = "limit" /\ e.sent.call = "aggregate"

StageOp(stage) == Keys(stage)[1][1]
StageArg(stage) == Values(stage)[1]

\* C8: after addFields(map) or selectAllWithAlias(map) with a non-empty map
\* the terminal call dispatches an aggregation whose pipeline holds, after
\* the filter, join, group, sort and pagination stages, a stage adding every
\* output of the map.
C8_AddFieldsCompiled ==
    \A e \in InFlight :
        (/\ e.features \cap {"addFields", "selectAllWithAlias"} # {}
         /\ Len(Entries(e.ir._addFields)) > 0) =>
            /\ e.sent.call = "aggregate"
            /\ \E i \in 1..Len(e.sent.pipeline) :
                /\ StageOp(e.sent.pipeline[i]) \in {"$addFields", "$set"}
                /\ \A k \in KeySet(e.ir._addFields) :
                        Get(StageArg(e.sent.pipeline[i]), k) = Get(e.ir._addFields, k)
                /\ \A j \in 1..(i - 1) :
                        StageOp(e.sent.pipeline[j]) \in
                            {"$match", "$lookup", "$group", "$sort", "$skip", "$limit"}

\* a non-negative integer
IsCount(n) == n.t = "number" /\ n.v \in Nat

\* the skip and limit values of a request
Counts(sent) ==
    {StageArg(sent.pipeline[i]) :
        i \in {n \in 1..Len(sent.pipeline) :
                StageOp(sent.pipeline[n]) \in {"$skip", "$limit"}}}
        \cup {sent.cursor[i][2] : i \in 1..Len(sent.cursor)}

\* C9: limit(n), offset(n) and skip(n) with a negative or non-numeric n throw
\* at the call and leave skipCount and limitCount as they were, and the skip
\* and limit values of every dispatched request are non-negative integers.
C9_PaginationValidated ==
    [][/\ \A n \in LimitArgs \cup OffsetArgs :
            (~IsCount(n) /\ (LimitCall(n) \/ OffsetCall(n) \/ SkipCall(n))) =>
                /\ thrown' # "none"
                /\ this'.skipCount = this.skipCount
                /\ this'.limitCount = this.limitCount
       /\ \A i \in 1..Len(inflight') :
            \A n \in Counts(inflight'[i].sent) : IsCount(n)]_vars

RequiredKeys == {W("from"), W("localField"), W("foreignField"), W("as")}

LacksRequiredKey(lookupSpec) == ~(RequiredKeys \subseteq KeySet(lookupSpec))

\* C10: join(spec) with a spec lacking one of from, localField, foreignField,
\* as throws at the call and leaves the join spec and the mode flag as they
\* were, and every $lookup stage of a dispatched pipeline has the four keys.
C10_JoinValidated ==
    [][/\ \A lookupSpec \in JoinArgs :
            (LacksRequiredKey(lookupSpec) /\ JoinCall(lookupSpec)) =>
                /\ thrown' # "none"
                /\ this'.joinSpec = this.joinSpec
                /\ this'._isAggregation = this._isAggregation
       /\ \A i \in 1..Len(inflight') :
            \A j \in 1..Len(inflight'[i].sent.pipeline) :
                StageOp(inflight'[i].sent.pipeline[j]) = "$lookup" =>
                    ~LacksRequiredKey(StageArg(inflight'[i].sent.pipeline[j]))]_vars

\* a value given as an argument that is not an object: null, a string, a
\* number (an absent argument takes the parameter's default)
NonObject(x) == x # Undefined /\ (x = Null \/ TypeOf(x) # "object")

\* C11: where(x) and having(x) with a non-object x, and groupBy(x) with an
\* absent or falsy x, throw at the call itself, dispatch nothing, and leave
\* every field of the builder, the mode flag included, as it was.
C11_ValidationThrowsAtCall ==
    [][\A x \in WhereArgs \cup HavingArgs \cup GroupByArgs :
            (\/ NonObject(x) /\ (WhereCall(x) \/ HavingCall(x))
             \/ ~Truthy(x) /\ GroupByCall(x)) =>
                /\ thrown' # "none"
                /\ this' = this
                /\ inflight' = inflight]_vars

\* C11 witness: groupBy() has thrown on a builder that holds a filter and is
\* still in Simple mode.
C11_Witness ==
    /\ last = "groupBy"
    /\ thrown = "groupBy expects a field name or a group spec"
    /\ this.query # Obj(<<>>)
    /\ ~this._isAggregation

\* the filter a request uses: the first argument of find(), or the argument
\* of the pipeline's leading $match stage, the stage of the having filter
\* (the only $match stage when there is one and having() was called) apart
MatchStages(sent) ==
    SelectSeq(sent.pipeline, LAMBDA stage : StageOp(stage) = "$match")

UsedFilter(e) ==
    IF e.sent.call = "find" THEN e.sent.filter
    ELSE IF Len(MatchStages(e.sent)) > Count(e.ir.havingFilter # Null)
    THEN StageArg(MatchStages(e.sent)[1])
    ELSE Obj(<<>>)

\* the filters given to the chain's where calls, an absent one being {}
Filters(e) ==
    [i \in 1..Len(e.chain.filters) |-> Default(e.chain.filters[i], Obj(<<>>))]

\* the last of the filters `fs` that has the key k
LastWith(fs, k) ==
    CHOOSE i \in 1..Len(fs) :
        Has(fs[i], k) /\ \A j \in (i + 1)..Len(fs) : ~Has(fs[j], k)

\* C12: the filter used by a terminal call has exactly the keys of the
\* filters given to the chain's where calls, each with the value of the last
\* call that had the key; where() and where({}) add nothing, and a chain with
\* no where uses the empty filter.
C12_WhereMergesLastWins ==
    \A e \in InFlight :
        /\ KeySet(UsedFilter(e)) =
                UNION {KeySet(Filters(e)[i]) : i \in 1..Len(Filters(e))}
        /\ \A k \in KeySet(UsedFilter(e)) :
                Get(UsedFilter(e), k) = Get(Filters(e)[LastWith(Filters(e), k)], k)

\* C12 witness: a request for where({genre: "Sci-Fi"}).where() followed by a
\* filter that has the key genre again and a new key.
C12_Witness ==
    \E e \in InFlight :
        e.chain.filters = <<SciFi, Undefined, FantasyRated>>

\* C13: a terminal call made while an earlier one of the same builder awaits
\* the adapter is rejected: never are two terminal calls of the builder both
\* past dispatch and before their reset.
C13_OneTerminalCallAtATime == Len(inflight) <= 1

FluentCalls ==
    {"select", "addFields", "selectAllWithAlias", "where", "orderBy", "limit",
     "offset", "skip", "join", "groupBy", "having"}

\* the requests made of the native collection so far and not yet answered
Sent(calls) == [i \in 1..Len(calls) |-> calls[i].sent]

\* a request is one find() with its cursor calls, or one aggregate()
OneRequest(sent) ==
    \/ /\ sent.call = "find"
       /\ sent.pipeline = <<>>
       /\ sent.filter # Undefined /\ sent.opts # Undefined
    \/ /\ sent.call = "aggregate"
       /\ sent.filter = Undefined /\ sent.opts = Undefined /\ sent.cursor = <<>>

\* C14: a fluent call makes no request of the native collection and, when it
\* returns, leaves the caller with the one builder; a terminal call makes
\* exactly one request, a find() or an aggregate(), never both.
C14_OnlyTerminalCallsDispatch ==
    [][/\ last' \in FluentCalls => Sent(inflight') = Sent(inflight)
       /\ last' = "exec" =>
            /\ Len(inflight') = Len(inflight) + 1
            /\ Sent(SubSeq(inflight', 1, Len(inflight))) = Sent(inflight)
            /\ OneRequest(inflight'[Len(inflight')].sent)
            /\ this' = this]_vars

\* C14 witness: a fluent call has returned while a find() request of the
\* builder is with the adapter.
C14_Witness ==
    /\ last = "limit"
    /\ thrown = "none"
    /\ Len(inflight) = 1
    /\ inflight[1].sent.call = "find"

\* the group spec the claim gives for an argument of groupBy: for a string f
\* {_id: "$f", items: {$push: "$$ROOT"}}, for an object the object
GroupSpecOf(x) ==
    IF x.t = "string"
    THEN Obj(<< <<W("_id"), Str(<<"$">> \o x.v)>>,
                <<W("items"), Obj(<< <<W("$push"), Str(<<"$$ROOT">>)>> >>)>> >>)
    ELSE x

GroupStages(sent) ==
    SelectSeq(sent.pipeline, LAMBDA stage : StageOp(stage) = "$group")

\* C15: at a terminal call of a chain that called groupBy, the group spec is
\* the one of the chain's last groupBy, {_id: "$f", items: {$push: "$$ROOT"}}
\* for a string f and the object itself for an object, and a dispatched
\* pipeline has one $group stage, equal to it.
C15_GroupByExpands ==
    \A e \in InFlight :
        e.chain.grouped # <<>> =>
            LET spec == GroupSpecOf(e.chain.grouped[Len(e.chain.grouped)])
            IN  /\ e.ir.groupSpec = spec
                /\ e.sent.call = "aggregate" =>
                        GroupStages(e.sent) = <<Stage("$group", spec)>>

\* C15 witness: a pipeline dispatched for a chain that called groupBy with a
\* group object and then with a field name.
C15_Witness ==
    \E e \in InFlight :
        /\ e.chain.grouped = <<GroupByAuthor, Str(genre)>>
        /\ e.sent.call = "aggregate"

\* C16: the plan a terminal call has handed to the adapter reads, at any
\* later time, as it read when it was dispatched: no fluent call made
\* afterwards changes its filter, sort or group objects.
C16_DispatchedPlanIsACopy == \A e \in InFlight : e.now = e.sent

\* the sort a request carries: opts.sort of find(), or the argument of the
\* pipeline's $sort stage; Undefined when it carries none
SortStages(sent) ==
    SelectSeq(sent.pipeline, LAMBDA stage : StageOp(stage) = "$sort")

SortOf(sent) ==
    IF sent.call = "find" THEN Get(sent.opts, W("sort"))
    ELSE IF SortStages(sent) # <<>> THEN StageArg(SortStages(sent)[1])
    ELSE Undefined

\* the direction the claim gives for an argument: descending for "desc" and
\* -1, ascending otherwise and when absent
DirectionOf(direction) ==
    IF direction \in {Str(W("desc")), Num(-1)} THEN Num(-1) ELSE Num(1)

\* the chain's orderBy calls that had a field
WithField(sorts) == SelectSeq(sorts, LAMBDA a : Truthy(a[1]))

\* the sort spec when each call puts its pair last, a pair of the same field
\* already there being dropped
RECURSIVE AppendedLast(_, _)
AppendedLast(pairs, calls) ==
    IF calls = <<>> THEN pairs
    ELSE LET field == Head(calls)[1].v
         IN  AppendedLast(
                Append(SelectSeq(pairs, LAMBDA pr : pr[1] # field),
                       <<field, DirectionOf(Head(calls)[2])>>),
                Tail(calls))

\* the sort spec when a call that repeats a field changes the direction of
\* the key where it stands, and a call with a new field puts its pair last
RECURSIVE KeptInPlace(_, _)
KeptInPlace(pairs, calls) ==
    IF calls = <<>> THEN pairs
    ELSE LET field == Head(calls)[1].v
             dir == DirectionOf(Head(calls)[2])
         IN  KeptInPlace(
                IF \E i \in 1..Len(pairs) : pairs[i][1] = field
                THEN [i \in 1..Len(pairs) |->
                        IF pairs[i][1] = field THEN <<field, dir>> ELSE pairs[i]]
                ELSE Append(pairs, <<field, dir>>),
                Tail(calls))

SortIs(sent, pairs) ==
    IF pairs = <<>> THEN SortOf(sent) = Undefined ELSE SortOf(sent) = Obj(pairs)

\* C17 as claimed: the sort emitted by a terminal call lists the pairs of
\* the chain's orderBy calls, each call having put its pair last (a repeated
\* field included), descending for "desc" and -1 only; calls with an absent
\* field add nothing.
C17_OrderByAppendsLast ==
    \A e \in InFlight :
        SortIs(e.sent, AppendedLast(<<>>, WithField(e.chain.sorts)))

\* C17 amended: ... a call with a field not yet in the sort spec puts its
\* pair last, a call that repeats a field changes that key's direction and
\* leaves it where the first call put it.
C17_OrderByKeepsFirstPlace ==
    \A e \in InFlight :
        SortIs(e.sent, KeptInPlace(<<>>, WithField(e.chain.sorts)))

\* C17 witness: a request for orderBy("title").orderBy("rating", "desc")
\* .orderBy("title", -1).
C17_Witness ==
    \E e \in InFlight :
        e.chain.sorts = << <<Str(title), Undefined>>,
                           <<Str(rating), Str(W("desc"))>>,
                           <<Str(title), Num(-1)>> >>

\* the cursor modifiers the claim gives for a chain: skip iff offset/skip was
\* called, limit iff limit was called, with the number of the last call
PaginationOf(ch) ==
    [i \in 1..Len(ch.skipped) |-> <<"skip", Number(ch.skipped[i])>>]
        \o [i \in 1..Len(ch.limited) |-> <<"limit", Number(ch.limited[i])>>]

\* C18: a terminal call in Simple mode issues find(filter, options) with the
\* accumulated query as filter ({} when none), options holding projection
\* iff a selection is set and sort iff a sort spec is set and nothing else,
\* then cursor skip iff offset was called and cursor limit iff limit was
\* called, each with the number of the last such call.
C18_FindPathRequest ==
    \A e \in InFlight :
        e.sent.call = "find" =>
            /\ e.sent.filter = e.ir.query
            /\ e.chain.filters = <<>> => e.sent.filter = Obj(<<>>)
            /\ KeySet(e.sent.opts) \subseteq {W("projection"), W("sort")}
            /\ Has(e.sent.opts, W("projection")) <=> e.ir.projection # Null
            /\ e.ir.projection # Null =>
                    Get(e.sent.opts, W("projection")) = e.ir.projection
            /\ Has(e.sent.opts, W("sort")) <=> WithField(e.chain.sorts) # <<>>
            /\ WithField(e.chain.sorts) # <<>> =>
                    Get(e.sent.opts, W("sort")) = e.ir.sort
            /\ e.sent.cursor = PaginationOf(e.chain)

\* C18 witness: find() dispatched for a chain that called limit(5) and then
\* offset(2): the cursor is skipped by 2, then limited to 5.
C18_Witness ==
    \E e \in InFlight :
        /\ e.sent.call = "find"
        /\ e.after \in {"offset", "skip"}
        /\ e.chain.limited = <<Num(5)>>
        /\ e.chain.skipped = <<Num(2)>>

\* C19: the projection a terminal call passes to find() is absent or a pure
\* inclusion map, every value the marker 1: no alias string and no computed
\* expression reaches find(), whatever fluent calls came before.
C19_FindProjectionIsInclusion ==
    \A e \in InFlight :
        (e.sent.call = "find" /\ Has(e.sent.opts, W("projection"))) =>
            \A k \in KeySet(Get(e.sent.opts, W("projection"))) :
                Get(Get(e.sent.opts, W("projection")), k) = Num(1)

\* C19 witness: find() dispatched with a projection of at least one field
\* for a chain that had selected an alias before.
C19_Witness ==
    \E e \in InFlight :
        /\ e.sent.call = "find"
        /\ Has(e.sent.opts, W("projection"))
        /\ KeySet(Get(e.sent.opts, W("projection"))) # {}
        /\ "alias" \in e.features

\* C20: when the adapter fails during a terminal call, no reset is done: the
\* builder after the failure is the builder the call read (filter, sort,
\* pagination, join, group, having, projection and mode), so that the next
\* calls build on it and a terminal call made at once dispatches the failed
\* plan again.
C20_FailureKeepsState ==
    [][last' = "rejected" =>
            /\ this' = this
            /\ \E i \in 1..Len(inflight) :
                    /\ inflight' = Remove(inflight, i)
                    /\ this' = inflight[i].ir
                    /\ Request(this') = inflight[i].sent]_vars

\* C20 witness: a terminal call has failed on a builder that holds a filter,
\* a sort, a limit and a join, in Aggregation mode.
C20_Witness ==
    /\ last = "rejected"
    /\ this._isAggregation
    /\ this.query # Obj(<<>>)
    /\ this.sort # Null
    /\ this.limitCount # Null
    /\ this.joinSpec # Null

\* the fields that the claim lists, as a newly constructed builder has them
InitialFields(self) ==
    /\ self.query = Constructor.query
    /\ self.projection = Constructor.projection
    /\ self.sort = Constructor.sort
    /\ self.skipCount = Constructor.skipCount
    /\ self.limitCount = Constructor.limitCount
    /\ self.joinSpec = Constructor.joinSpec
    /\ self.groupSpec = Constructor.groupSpec
    /\ self.havingFilter = Constructor.havingFilter
    /\ self._isAggregation = Constructor._isAggregation

\* C21: when a pending terminal call resolves, query, projection, sort, skip,
\* limit, join, group, having and the mode flag are back to their initial
\* values whatever fluent calls were made during the await, so that a
\* terminal call made next dispatches the request of an empty chain.
C21_ResetErasesInterleavedCalls ==
    [][last' = "resolved" =>
            /\ InitialFields(this')
            /\ Request(this') = Request(Constructor)]_vars

\* C21 witness: a terminal call has resolved and its reset has undone as
\* many fluent calls, made during its await, as a chain may have.
C21_Witness ==
    /\ last = "resolved"
    /\ erased = MaxAsyncCalls

\* the builder `after` differs from `before` in the field `field` at most
OnlyChanges(before, after, field) ==
    \A f \in DOMAIN before : f # field => after[f] = before[f]

\* C22: where changes only the query, orderBy only the sort spec, limit only
\* the limit count, offset and skip only the skip count (none of them the
\* projection, the join spec, the group spec, the having filter or the mode
\* flag), and a chain that has used no aggregation-only feature and whose
\* select, if any, lists plain field names is executed through find().
C22_NeutralCallsFrame ==
    [][/\ \A a \in WhereArgs : WhereCall(a) => OnlyChanges(this, this', "query")
       /\ OrderBy => OnlyChanges(this, this', "sort")
       /\ \A n \in LimitArgs : LimitCall(n) => OnlyChanges(this, this', "limitCount")
       /\ \A n \in OffsetArgs :
            (OffsetCall(n) \/ SkipCall(n)) => OnlyChanges(this, this', "skipCount")
       /\ \A i \in 1..Len(inflight') :
            (/\ inflight'[i].features = {}
             /\ inflight'[i].selected # Undefined => PlainNames(inflight'[i].selected))
                => inflight'[i].sent.call = "find"]_vars

\* C22 witness: find() dispatched for a chain of where, orderBy and limit,
\* each of which has changed its own field.
C22_Witness ==
    \E e \in InFlight :
        /\ e.sent.call = "find"
        /\ e.features = {}
        /\ e.chain.filters # <<>> /\ e.ir.query # Obj(<<>>)
        /\ WithField(e.chain.sorts) # <<>>
        /\ e.chain.limited # <<>>

====
